---- MODULE Spec2Model ----
(***************************************************************************)
(* Model of src/app.py: the Flask front door (handle_request), the         *)
(* background run (background_task) and the evaluator notifier             *)
(* (notify_evaluation_server).                                             *)
(*                                                                         *)
(* External collaborators (generative model, git / curl / gh commands,     *)
(* the evaluator endpoint) are opaque: each call either returns or fails,  *)
(* chosen nondeterministically.  Local directory operations (makedirs,     *)
(* rmtree, open-for-write) are taken to succeed.                           *)
(*                                                                         *)
(* The loop of lines 211-212 is dedented in the file.  It can only belong  *)
(* to the try block of line 110 (the except clause of line 240 has no      *)
(* other try), either as a statement of the try body or as the last        *)
(* statement of the else branch of line 185.  The file does not decide     *)
(* which, so firstLoopDepth ranges over both readings.                     *)
(*                                                                         *)
(* Runs are modelled one at a time: a request or a direct call is taken    *)
(* only when no background run is in progress.                             *)
(***************************************************************************)
EXTENDS Integers, Sequences, FiniteSets, TLC

\* ------------------------------------------------------------------ bounds
MaxInvocations == 2      \* POSTs plus direct calls of background_task
MaxRound == 2            \* rounds 1..MaxRound
MaxAttachments == 1      \* attachments per task

\* ------------------------------------------------------------- input sets
None == "None"           \* Python's None (os.getenv of an unset variable, dict.get of a missing key)

TaskIds == {"a"}
TaskSecrets == {None, "s3cret", "wrong"}
EnvSecrets == {None, "", "s3cret"}
EnvAccounts == {None, "acct"}
EnvTokens == {None, "tok"}
Rounds == 1..MaxRound

\* an attachment: its file name and its data URL, the URL given as the parts
\* url.split(',') yields, the payload as its base64 characters
DataHeader == "data:;base64"
Attachments ==
  { [name |-> "data.csv", url |-> <<DataHeader, <<"Q", "f", "8", "=">>>>],
    [name |-> "data.csv", url |-> <<DataHeader>>],
    [name |-> "index.html", url |-> <<DataHeader, <<"Q", "Q", "=", "=">>>>] }

RECURSIVE SeqsUpTo(_, _)
SeqsUpTo(S, n) ==
  IF n = 0 THEN {<<>>}
  ELSE LET shorter == SeqsUpTo(S, n - 1)
       IN shorter \cup {Append(s, x) : s \in {t \in shorter : Len(t) = n - 1}, x \in S}

\* the JSON objects a request may carry (request.json, line 261)
\* (attachments are only looked at in round 1, so only round-1 tasks carry any)
Tasks ==
  { t \in [task : TaskIds, round : Rounds, secret : TaskSecrets,
           email : {"u@example.org"}, nonce : {"n-1"}, brief : {"todo app"},
           evaluation_url : {"https://eval.example/notify"},
           attachments : SeqsUpTo(Attachments, MaxAttachments)] :
      t.round # 1 => t.attachments = <<>> }

\* an idle task record for the time no run has been started
NoTask == CHOOSE t \in Tasks : TRUE

\* a POST: without a JSON content type, with JSON that is not an object
\* (a list, a string, null), or with a JSON object
NotJson == "not-json"
NonObjectJson == "json-non-object"
ObjectJson == "json-object"
Requests ==
  [kind : {ObjectJson}, data : Tasks] \cup [kind : {NotJson, NonObjectJson}, data : {NoTask}]

\* raw texts the generative model may return (response.text, line 53), as token sequences
Fence == "<fence>"            \* the three-backtick marker
FenceHtml == "<fence>html"    \* the marker followed by html
Space == " "
RawResponses ==
  { <<FenceHtml, Space, "<html>v2</html>", Space, Fence>>,
    <<Space, FenceHtml, Space, Fence>> }

VARIABLES
  env,             \* process environment: MY_SECRET, GITHUB_USERNAME, GITHUB_TOKEN
  firstLoopDepth,  \* reading of the dedented loop of lines 211-212: "try" or "else"
  fs,              \* local workspace directory per task identifier
  responses,       \* responses handle_request has returned, in order
  threads,         \* number of threading.Thread(...).start() calls
  directCalls,     \* number of direct calls of background_task
  pc,              \* position of the background run
  task_data,       \* argument of the background run
  commands,        \* the run's command list
  idx,             \* index of the next command / attachment
  calls,           \* external actions the run has invoked, with their outcome
  html_code,       \* text returned by generate_llm_code (html_code / updated)
  old_code,        \* text of index.html read in round >= 2
  commit_sha,      \* value read back by git rev-parse HEAD
  payload,         \* the notifier's payload
  attempt,         \* the notifier's loop index (1-based)
  ntrace,          \* what the notifier has done: posts and sleeps, in order
  notified,        \* the notifier's return value
  failedAt,        \* step whose exception the run's except clause caught
  escaped,         \* an exception left background_task
  parked           \* the local state of a second thread while the first one runs

vars == <<parked, env, firstLoopDepth, fs, responses, threads, directCalls, pc, task_data,
          commands, idx, calls, html_code, old_code, commit_sha, payload, attempt,
          ntrace, notified, failedAt, escaped>>


\* ------------------------------------------------------------- filesystem
NoFiles == [n \in {} |-> ""]
NoDir == [exists |-> FALSE, files |-> NoFiles]
EmptyDir == [exists |-> TRUE, files |-> NoFiles]

WriteFile(dir, name, content) ==
  [exists |-> dir.exists,
   files |-> [n \in DOMAIN dir.files \cup {name} |->
                IF n = name THEN content ELSE dir.files[n]]]

\* ------------------------------------------------------------ environment
EnvVars == {"MY_SECRET", "GITHUB_USERNAME", "GITHUB_TOKEN"}

\* get_env_variable raises when os.getenv gives None or the empty string
EnvMissing(var_name) == env[var_name] = None \/ env[var_name] = ""

NoPayload == [k \in {} |-> ""]

Idle == pc \in {"idle", "done", "aborted", "rejected"}

\* the local state of a thread that runs nothing
NoRun ==
  [pc |-> "idle", task_data |-> NoTask, commands |-> <<>>, idx |-> 1, calls |-> <<>>,
   html_code |-> <<>>, old_code |-> <<>>, commit_sha |-> None, payload |-> NoPayload,
   attempt |-> 1, ntrace |-> <<>>, notified |-> "pending", failedAt |-> "none",
   escaped |-> FALSE]

Init ==
  /\ env \in [MY_SECRET : EnvSecrets, GITHUB_USERNAME : EnvAccounts, GITHUB_TOKEN : EnvTokens]
  /\ firstLoopDepth \in {"try", "else"}
  /\ fs = [t \in TaskIds |-> NoDir]
  /\ responses = <<>>
  /\ threads = 0
  /\ directCalls = 0
  /\ pc = "idle"
  /\ task_data = NoTask
  /\ commands = <<>>
  /\ idx = 1
  /\ calls = <<>>
  /\ html_code = <<>>
  /\ old_code = <<>>
  /\ commit_sha = None
  /\ payload = NoPayload
  /\ attempt = 1
  /\ ntrace = <<>>
  /\ notified = "pending"
  /\ failedAt = "none"
  /\ escaped = FALSE
  /\ parked = NoRun

\* the state of a run that has just been entered (line 109)
EnterRun(data) ==
  /\ pc' = "config"
  /\ task_data' = data
  /\ commands' = <<>>
  /\ idx' = 1
  /\ calls' = <<>>
  /\ html_code' = <<>>
  /\ old_code' = <<>>
  /\ commit_sha' = None
  /\ payload' = NoPayload
  /\ attempt' = 1
  /\ ntrace' = <<>>
  /\ notified' = "pending"
  /\ failedAt' = "none"
  /\ escaped' = FALSE

runVars == <<pc, task_data, commands, idx, calls, html_code, old_code, commit_sha,
             payload, attempt, ntrace, notified, failedAt, escaped>>

\* a response, with the secret the request carried (data.get("secret"), line 262)
Response(req, status, started) ==
  [kind |-> req.kind, secret |-> IF req.kind = ObjectJson THEN req.data.secret ELSE None,
   status |-> status, started |-> started]

Invocations == Len(responses) + directCalls

\* ------------------------------------------------------ handle_request
\* the status handle_request answers with (lines 258-271): 400 without a JSON
\* content type; for JSON that is not an object data.get raises AttributeError
\* at line 262 and the framework answers 500; 403 when the secret differs
\* from os.getenv("MY_SECRET"); else 200
ResponseStatus(req) ==
  IF req.kind = NotJson THEN 400
  ELSE IF req.kind = NonObjectJson THEN 500
  ELSE IF req.data.secret # env.MY_SECRET THEN 403
  ELSE 200

\* POST /api-endpoint; the thread is started on the 200 path only (line 270)
handle_request ==
  /\ Idle /\ Invocations < MaxInvocations
  /\ \E req \in Requests :
       LET status == ResponseStatus(req)
       IN IF status = 200
          THEN /\ responses' = Append(responses, Response(req, status, TRUE))
               /\ threads' = threads + 1
               /\ EnterRun(req.data)
          ELSE /\ responses' = Append(responses, Response(req, status, FALSE))
               /\ UNCHANGED <<threads, runVars>>
  /\ UNCHANGED <<parked, env, firstLoopDepth, fs, directCalls>>

\* background_task called directly, with any task
DirectCall ==
  /\ Idle /\ Invocations < MaxInvocations
  /\ \E data \in Tasks : EnterRun(data)
  /\ directCalls' = directCalls + 1
  /\ UNCHANGED <<parked, env, firstLoopDepth, fs, responses, threads>>

\* ------------------------------------------------------ generate_llm_code
RECURSIVE Remove(_, _)
\* str.replace(tok, ""): every occurrence of the token is dropped
Remove(text, tok) ==
  IF text = <<>> THEN <<>>
  ELSE IF Head(text) = tok THEN Remove(Tail(text), tok)
  ELSE <<Head(text)>> \o Remove(Tail(text), tok)

RECURSIVE LStrip(_)
LStrip(text) ==
  IF text # <<>> /\ Head(text) = Space THEN LStrip(Tail(text)) ELSE text

RECURSIVE RStrip(_)
RStrip(text) ==
  IF text # <<>> /\ text[Len(text)] = Space
  THEN RStrip(SubSeq(text, 1, Len(text) - 1)) ELSE text

\* str.strip()
Strip(text) == RStrip(LStrip(text))

\* line 53: response.text.replace("```html", "").replace("```", "").strip()
CleanResponse(text) == Strip(Remove(Remove(text, FenceHtml), Fence))

\* ------------------------------------------------------ background_task
Call(cmd, existing, ok) == [cmd |-> cmd, existing |-> existing, ok |-> ok]

\* Raise without an enclosing except clause
RaisePropagates(step) ==
  /\ pc' = "aborted"
  /\ failedAt' = step
  /\ escaped' = TRUE

\* the except clause of lines 240-241: the exception is logged and the run ends
Raise(step) ==
  /\ pc' = "aborted"
  /\ failedAt' = step
  /\ escaped' = FALSE

Goto(label) ==
  /\ pc' = label
  /\ UNCHANGED <<failedAt, escaped>>

local_path == task_data.task

\* CheckConfig looking at MY_SECRET only
CheckConfigSecretOnly ==
  /\ pc = "config"
  /\ IF EnvMissing("MY_SECRET") THEN Raise("config") ELSE Goto("secret")
  /\ UNCHANGED <<parked, env, firstLoopDepth, fs, responses, threads, directCalls, task_data,
                 commands, idx, calls, html_code, old_code, commit_sha, payload,
                 attempt, ntrace, notified>>

\* lines 111-113: the three get_env_variable calls
CheckConfig ==
  /\ pc = "config"
  /\ IF \E v \in EnvVars : EnvMissing(v) THEN Raise("config") ELSE Goto("secret")
  /\ UNCHANGED <<parked, env, firstLoopDepth, fs, responses, threads, directCalls, task_data,
                 commands, idx, calls, html_code, old_code, commit_sha, payload,
                 attempt, ntrace, notified>>

\* CheckSecret without the comparison of line 115
CheckSecretSkipped ==
  /\ pc = "secret"
  /\ Goto("workspace")
  /\ UNCHANGED <<parked, env, firstLoopDepth, fs, responses, threads, directCalls, task_data,
                 commands, idx, calls, html_code, old_code, commit_sha, payload,
                 attempt, ntrace, notified>>

\* lines 115-117: secret mismatch returns without raising
CheckSecret ==
  /\ pc = "secret"
  /\ IF task_data.secret # env.MY_SECRET THEN Goto("rejected") ELSE Goto("workspace")
  /\ UNCHANGED <<parked, env, firstLoopDepth, fs, responses, threads, directCalls, task_data,
                 commands, idx, calls, html_code, old_code, commit_sha, payload,
                 attempt, ntrace, notified>>

\* PrepareWorkspace without the rmtree of lines 123-124
PrepareWorkspaceKeeps ==
  /\ pc = "workspace"
  /\ fs' = [fs EXCEPT ![local_path] = [exists |-> TRUE, files |-> @.files]]
  /\ IF task_data.round = 1 THEN Goto("generate") ELSE Goto("clone")
  /\ UNCHANGED <<parked, env, firstLoopDepth, responses, threads, directCalls, task_data,
                 commands, idx, calls, html_code, old_code, commit_sha, payload,
                 attempt, ntrace, notified>>

\* lines 123-127: a stale directory is removed, a fresh one created, then the round branch
PrepareWorkspace ==
  /\ pc = "workspace"
  /\ fs' = [fs EXCEPT ![local_path] = EmptyDir]
  /\ IF task_data.round = 1 THEN Goto("generate") ELSE Goto("clone")
  /\ UNCHANGED <<parked, env, firstLoopDepth, responses, threads, directCalls, task_data,
                 commands, idx, calls, html_code, old_code, commit_sha, payload,
                 attempt, ntrace, notified>>

\* the model call of generate_llm_code: it raises, or returns the cleaned text
GenerateStep(from, to, existing) ==
  /\ pc = from
  /\ \/ /\ calls' = Append(calls, Call("generate", existing, FALSE))
        /\ Raise("generate")
        /\ UNCHANGED html_code
     \/ \E raw \in RawResponses :
          /\ calls' = Append(calls, Call("generate", existing, TRUE))
          /\ html_code' = CleanResponse(raw)
          /\ Goto(to)
  /\ UNCHANGED <<parked, env, firstLoopDepth, fs, responses, threads, directCalls, task_data,
                 commands, idx, old_code, commit_sha, payload, attempt, ntrace, notified>>

\* line 129
GenerateNew == GenerateStep("generate", "write", <<>>)

readme == <<"# Project:", task_data.task, task_data.brief>>
license_text == <<"MIT License">>

\* WriteFiles leaving out the license file
WriteFilesNoLicense ==
  /\ pc = "write"
  /\ fs' = [fs EXCEPT ![local_path] =
              WriteFile(WriteFile(@, "index.html", html_code), "README.md", readme)]
  /\ idx' = 1
  /\ Goto("attach")
  /\ UNCHANGED <<parked, env, firstLoopDepth, responses, threads, directCalls, task_data,
                 commands, calls, html_code, old_code, commit_sha, payload,
                 attempt, ntrace, notified>>

\* lines 150-155: index.html, README.md and LICENSE are written
WriteFiles ==
  /\ pc = "write"
  /\ fs' = [fs EXCEPT ![local_path] =
              WriteFile(WriteFile(WriteFile(@, "index.html", html_code),
                                  "README.md", readme), "LICENSE", license_text)]
  /\ idx' = 1
  /\ Goto("attach")
  /\ UNCHANGED <<parked, env, firstLoopDepth, responses, threads, directCalls, task_data,
                 commands, calls, html_code, old_code, commit_sha, payload,
                 attempt, ntrace, notified>>

\* ------------------------------------------------------ write_attachment
\* values of the base64 characters the payloads use
B64Value(c) ==
  CASE c = "B" -> 1 [] c = "N" -> 13 [] c = "Q" -> 16 [] c = "c" -> 28
    [] c = "f" -> 31 [] c = "k" -> 36 [] c = "q" -> 42 [] c = "w" -> 48
    [] c = "6" -> 58 [] c = "8" -> 60 [] c = "9" -> 61 [] c = "/" -> 63
    [] c = "=" -> 0

\* the bytes of one group of four base64 characters
B64Group(g) ==
  LET n == B64Value(g[1]) * 262144 + B64Value(g[2]) * 4096
             + B64Value(g[3]) * 64 + B64Value(g[4])
      all == <<n \div 65536, (n \div 256) % 256, n % 256>>
  IN IF g[3] = "=" THEN SubSeq(all, 1, 1)
     ELSE IF g[4] = "=" THEN SubSeq(all, 1, 2)
     ELSE all

RECURSIVE B64Decode(_)
\* base64.b64decode of a payload whose length is a multiple of four
B64Decode(chars) ==
  IF chars = <<>> THEN <<>>
  ELSE B64Group(SubSeq(chars, 1, 4)) \o B64Decode(SubSeq(chars, 5, Len(chars)))

\* line 97 raises when the URL has no comma (IndexError) or the payload is
\* not padded to a multiple of four characters (binascii.Error)
Undecodable(attachment) ==
  Len(attachment.url) < 2 \/ Len(attachment.url[2]) % 4 # 0

IsContinuation(b) == b >= 128 /\ b <= 191
IsLead2(b) == b >= 194 /\ b <= 223

RECURSIVE Utf8Decode(_, _)
\* bytes.decode("utf-8", errors=...) over one- and two-byte sequences: a byte
\* that starts no valid sequence is dropped under "ignore" and becomes U+FFFD
\* under "replace"
Utf8Decode(bytes, errors) ==
  IF bytes = <<>> THEN <<>>
  ELSE LET b == Head(bytes)
           rest == Tail(bytes)
       IN IF b < 128 THEN <<b>> \o Utf8Decode(rest, errors)
          ELSE IF IsLead2(b) /\ rest # <<>> /\ IsContinuation(Head(rest))
          THEN <<(b % 32) * 64 + (Head(rest) % 64)>> \o Utf8Decode(Tail(rest), errors)
          ELSE (IF errors = "replace" THEN <<65533>> ELSE <<>>) \o Utf8Decode(rest, errors)

\* the suffix str.endswith looks at, for the names in use
Suffix(name) ==
  CASE name = "data.csv" -> ".csv" [] name = "index.html" -> ".html"
    [] name = "logo.png" -> ".png" [] name = "LOGO.PNG" -> ".PNG"
    [] name = "book.xlsx" -> ".xlsx" [] name = "README.md" -> ".md"

\* line 99
BinaryExtensions == {".xlsx", ".xls", ".png", ".jpg", ".zip"}

WriteMode(fname) == IF Suffix(fname) \in BinaryExtensions THEN "wb" ELSE "w"

\* what f.write puts into the file, item by item: a bytes object goes in as
\* its bytes (line 102), a str as its characters (line 104)
ByteName(b) ==
  CASE b = 65 -> "0x41" [] b = 169 -> "0xA9" [] b = 195 -> "0xC3" [] b = 255 -> "0xFF"
CharName(c) ==
  CASE c = 65 -> "A" [] c = 233 -> "U+00E9" [] c = 65533 -> "U+FFFD"
Bytes(content) == [i \in 1..Len(content) |-> ByteName(content[i])]
Chars(text) == [i \in 1..Len(text) |-> CharName(text[i])]

\* Written decoding text with errors="replace"
WrittenReplacing(attachment) ==
  LET file_content == B64Decode(attachment.url[2])
  IN IF WriteMode(attachment.name) = "wb" THEN Bytes(file_content)
     ELSE Chars(Utf8Decode(file_content, "replace"))

\* lines 97-104: what ends up in the file
Written(attachment) ==
  LET file_content == B64Decode(attachment.url[2])
  IN IF WriteMode(attachment.name) = "wb" THEN Bytes(file_content)
     ELSE Chars(Utf8Decode(file_content, "ignore"))

\* lines 157-158 with write_attachment (lines 95-104): a data URL that does not
\* decode raises, else the file is written under the attachment's name
WriteAttachment ==
  /\ pc = "attach"
  /\ idx <= Len(task_data.attachments)
  /\ LET attachment == task_data.attachments[idx]
     IN IF ~Undecodable(attachment)
        THEN /\ fs' = [fs EXCEPT ![local_path] =
                         WriteFile(@, attachment.name, Written(attachment))]
             /\ idx' = idx + 1
             /\ Goto("attach")
        ELSE /\ Raise("attachment")
             /\ UNCHANGED <<fs, idx>>
  /\ UNCHANGED <<parked, env, firstLoopDepth, responses, threads, directCalls, task_data,
                 commands, calls, html_code, old_code, commit_sha, payload,
                 attempt, ntrace, notified>>

\* Round1Commands with the push placed before the repository is created
Round1CommandsPushFirst ==
  <<"git config user.name", "git config user.email", "git config init.defaultBranch",
    "git init", "git add", "git commit", "git remote add", "git push",
    "create-repo", "enable-pages">>

\* lines 168-183
Round1Commands ==
  <<"git config user.name", "git config user.email", "git config init.defaultBranch",
    "git init", "git add", "git commit", "create-repo", "git remote add",
    "git push", "enable-pages">>

\* lines 205-209
Round2Commands == <<"git add", "git commit", "git push">>

\* where the run goes once the round branch has built its command list: the
\* loop of lines 211-212 is skipped by round 1 when it belongs to the else branch
AfterBranch == IF task_data.round = 1 /\ firstLoopDepth = "else" THEN "loop2" ELSE "loop1"

\* lines 161-183: the round-1 command list is built
BuildCommands ==
  /\ pc = "attach"
  /\ idx > Len(task_data.attachments)
  /\ commands' = Round1Commands
  /\ idx' = 1
  /\ Goto(AfterBranch)
  /\ UNCHANGED <<parked, env, firstLoopDepth, fs, responses, threads, directCalls, task_data,
                 calls, html_code, old_code, commit_sha, payload, attempt, ntrace,
                 notified>>

\* texts of index.html a cloned repository may hold
ClonedIndex == {<<"<html>v1</html>">>, <<>>}

\* line 187: gh repo clone; the clone may or may not hold an index.html
Clone ==
  /\ pc = "clone"
  /\ \/ /\ calls' = Append(calls, Call("gh repo clone", <<>>, FALSE))
        /\ Raise("clone")
        /\ UNCHANGED fs
     \/ /\ calls' = Append(calls, Call("gh repo clone", <<>>, TRUE))
        /\ \/ fs' = [fs EXCEPT ![local_path] = WriteFile(@, "README.md", readme)]
           \/ \E text \in ClonedIndex :
                fs' = [fs EXCEPT ![local_path] =
                         WriteFile(WriteFile(@, "README.md", readme), "index.html", text)]
        /\ Goto("seturl")
  /\ UNCHANGED <<parked, env, firstLoopDepth, responses, threads, directCalls, task_data,
                 commands, idx, html_code, old_code, commit_sha, payload, attempt,
                 ntrace, notified>>

\* lines 192-197: git remote set-url
SetRemoteUrl ==
  /\ pc = "seturl"
  /\ \/ /\ calls' = Append(calls, Call("git remote set-url", <<>>, FALSE))
        /\ Raise("seturl")
     \/ /\ calls' = Append(calls, Call("git remote set-url", <<>>, TRUE))
        /\ Goto("read")
  /\ UNCHANGED <<parked, env, firstLoopDepth, fs, responses, threads, directCalls, task_data,
                 commands, idx, html_code, old_code, commit_sha, payload, attempt,
                 ntrace, notified>>

\* lines 199-200: open(index.html) raises when the clone has no such file
ReadIndex ==
  /\ pc = "read"
  /\ IF "index.html" \in DOMAIN fs[local_path].files
     THEN /\ old_code' = fs[local_path].files["index.html"]
          /\ Goto("regenerate")
     ELSE /\ Raise("read")
          /\ UNCHANGED old_code
  /\ UNCHANGED <<parked, env, firstLoopDepth, fs, responses, threads, directCalls, task_data,
                 commands, idx, calls, html_code, commit_sha, payload, attempt,
                 ntrace, notified>>

\* Regenerate handing the generator the brief only
RegenerateBriefOnly == GenerateStep("regenerate", "rewrite", <<>>)

\* line 201
Regenerate == GenerateStep("regenerate", "rewrite", old_code)

\* lines 202-209: index.html is overwritten and the round >= 2 command list built
RewriteIndex ==
  /\ pc = "rewrite"
  /\ fs' = [fs EXCEPT ![local_path] = WriteFile(@, "index.html", html_code)]
  /\ commands' = Round2Commands
  /\ idx' = 1
  /\ Goto(AfterBranch)
  /\ UNCHANGED <<parked, env, firstLoopDepth, responses, threads, directCalls, task_data,
                 calls, html_code, old_code, commit_sha, payload, attempt, ntrace,
                 notified>>

\* RunCommand with check=False: a non-zero exit is ignored
RunCommandUnchecked(loop, after) ==
  /\ pc = loop
  /\ \E ok \in BOOLEAN : calls' = Append(calls, Call(commands[idx], <<>>, ok))
  /\ IF idx < Len(commands)
     THEN idx' = idx + 1 /\ Goto(loop)
     ELSE idx' = 1 /\ Goto(after)
  /\ UNCHANGED <<parked, env, firstLoopDepth, fs, responses, threads, directCalls, task_data,
                 commands, html_code, old_code, commit_sha, payload, attempt, ntrace,
                 notified>>

\* subprocess.run(cmd, shell=True, check=True): a non-zero exit raises
RunCommand(loop, after) ==
  /\ pc = loop
  /\ \/ /\ calls' = Append(calls, Call(commands[idx], <<>>, FALSE))
        /\ Raise(commands[idx])
        /\ UNCHANGED idx
     \/ /\ calls' = Append(calls, Call(commands[idx], <<>>, TRUE))
        /\ IF idx < Len(commands)
           THEN idx' = idx + 1 /\ Goto(loop)
           ELSE idx' = 1 /\ Goto(after)
  /\ UNCHANGED <<parked, env, firstLoopDepth, fs, responses, threads, directCalls, task_data,
                 commands, html_code, old_code, commit_sha, payload, attempt, ntrace,
                 notified>>

\* lines 211-212
FirstLoop == RunCommand("loop1", "loop2")

\* lines 216-218
SecondLoop == RunCommand("loop2", "revparse")

\* the commit HEAD names: the latest commit the run's git commit commands made
HeadCommit ==
  LET made == Cardinality({i \in 1..Len(calls) : calls[i].cmd = "git commit" /\ calls[i].ok})
  IN CASE made = 1 -> "commit-1" [] made = 2 -> "commit-2" [] OTHER -> "commit-0"

\* line 220: git rev-parse HEAD through check_output
RevParse ==
  /\ pc = "revparse"
  /\ \/ /\ calls' = Append(calls, Call("git rev-parse", <<>>, FALSE))
        /\ Raise("git rev-parse")
        /\ UNCHANGED commit_sha
     \/ /\ calls' = Append(calls, Call("git rev-parse", <<>>, TRUE))
        /\ commit_sha' = HeadCommit
        /\ Goto("notify")
  /\ UNCHANGED <<parked, env, firstLoopDepth, fs, responses, threads, directCalls, task_data,
                 commands, idx, html_code, old_code, payload, attempt, ntrace, notified>>

\* ------------------------------------------------ notify_evaluation_server
repo_url == <<"https://github.com/", env.GITHUB_USERNAME, "/tds-proj-", task_data.task>>
pages_url == <<"https://", env.GITHUB_USERNAME, ".github.io/tds-proj-", task_data.task, "/">>

\* BuildPayload without the commit identifier read back at line 220
BuildPayloadNoSha ==
  [k \in {"email", "task", "round", "nonce", "repo_url", "commit_sha", "pages_url",
          "evaluation_url"} |->
     CASE k = "email" -> <<task_data.email>>
       [] k = "task" -> <<task_data.task>>
       [] k = "round" -> <<task_data.round>>
       [] k = "nonce" -> <<task_data.nonce>>
       [] k = "repo_url" -> repo_url
       [] k = "commit_sha" -> <<None>>
       [] k = "pages_url" -> pages_url
       [] k = "evaluation_url" -> <<task_data.evaluation_url>>]

\* lines 227-236: the dict handed to notify_evaluation_server
BuildPayload ==
  [k \in {"email", "task", "round", "nonce", "repo_url", "commit_sha", "pages_url",
          "evaluation_url"} |->
     CASE k = "email" -> <<task_data.email>>
       [] k = "task" -> <<task_data.task>>
       [] k = "round" -> <<task_data.round>>
       [] k = "nonce" -> <<task_data.nonce>>
       [] k = "repo_url" -> repo_url
       [] k = "commit_sha" -> <<commit_sha>>
       [] k = "pages_url" -> pages_url
       [] k = "evaluation_url" -> <<task_data.evaluation_url>>]

\* Pop reading the key without removing it (dict.get)
PopKeeps(dict, key) == dict

\* dict.pop(key): the dict without the key
Pop(dict, key) == [k \in DOMAIN dict \ {key} |-> dict[k]]

\* delays with a fifth entry
delaysFive == <<1, 2, 4, 8, 16>>

\* line 79
delays == <<1, 2, 4, 8>>

Event(ev, status, delay) ==
  [ev |-> ev, attempt |-> attempt, status |-> status, delay |-> delay, body |-> payload]

\* lines 76-79: the URL is popped from the payload and the loop entered
NotifyEnter ==
  /\ pc = "notify"
  /\ payload' = Pop(BuildPayload, "evaluation_url")
  /\ attempt' = 1
  /\ Goto("post")
  /\ UNCHANGED <<parked, env, firstLoopDepth, fs, responses, threads, directCalls, task_data,
                 commands, idx, calls, html_code, old_code, commit_sha, ntrace, notified>>

\* what one requests.post may do: answer 200, answer another status, or raise
\* a requests.RequestException
PostOutcomes == {"200", "500", "RequestException"}

\* lines 81-89: one attempt; status 200 returns True
Post ==
  /\ pc = "post"
  /\ \E outcome \in PostOutcomes :
       /\ ntrace' = Append(ntrace, Event("post", outcome, 0))
       /\ IF outcome = "200"
          THEN notified' = "True" /\ Goto("cleanup")
          ELSE UNCHANGED notified /\ Goto("sleep")
  /\ UNCHANGED <<parked, env, firstLoopDepth, fs, responses, threads, directCalls, task_data,
                 commands, idx, calls, html_code, old_code, commit_sha, payload, attempt>>

\* Sleep raising once the attempts are exhausted instead of returning False
SleepRaises ==
  /\ pc = "sleep"
  /\ ntrace' = Append(ntrace, Event("sleep", "", delays[attempt]))
  /\ IF attempt < Len(delays)
     THEN attempt' = attempt + 1 /\ Goto("post")
     ELSE UNCHANGED attempt /\ Raise("notify")
  /\ UNCHANGED <<parked, env, firstLoopDepth, fs, responses, threads, directCalls, task_data,
                 commands, idx, calls, html_code, old_code, commit_sha, payload, notified>>

\* Sleep going back to the last attempt instead of leaving the loop
SleepRetriesLast ==
  /\ pc = "sleep"
  /\ ntrace' = Append(ntrace, Event("sleep", "", delays[attempt]))
  /\ attempt' = IF attempt < Len(delays) THEN attempt + 1 ELSE attempt
  /\ Goto("post")
  /\ UNCHANGED <<parked, env, firstLoopDepth, fs, responses, threads, directCalls, task_data,
                 commands, idx, calls, html_code, old_code, commit_sha, payload, notified>>

\* lines 90-92: time.sleep(delay) ends every iteration that did not return;
\* after the last one the function returns False
Sleep ==
  /\ pc = "sleep"
  /\ ntrace' = Append(ntrace, Event("sleep", "", delays[attempt]))
  /\ IF attempt < Len(delays)
     THEN attempt' = attempt + 1 /\ UNCHANGED notified /\ Goto("post")
     ELSE UNCHANGED attempt /\ notified' = "False" /\ Goto("cleanup")
  /\ UNCHANGED <<parked, env, firstLoopDepth, fs, responses, threads, directCalls, task_data,
                 commands, idx, calls, html_code, old_code, commit_sha, payload>>

\* Cleanup without the rmtree
CleanupKeeps ==
  /\ pc = "cleanup"
  /\ Goto("done")
  /\ UNCHANGED <<parked, env, firstLoopDepth, fs, responses, threads, directCalls, task_data,
                 commands, idx, calls, html_code, old_code, commit_sha, payload,
                 attempt, ntrace, notified>>

\* line 238: shutil.rmtree(local_path)
Cleanup ==
  /\ pc = "cleanup"
  /\ fs' = [fs EXCEPT ![local_path] = NoDir]
  /\ Goto("done")
  /\ UNCHANGED <<parked, env, firstLoopDepth, responses, threads, directCalls, task_data,
                 commands, idx, calls, html_code, old_code, commit_sha, payload,
                 attempt, ntrace, notified>>

Next ==
  \/ handle_request
  \/ DirectCall
  \/ CheckConfig
  \/ CheckSecret
  \/ PrepareWorkspace
  \/ GenerateNew
  \/ WriteFiles
  \/ WriteAttachment
  \/ BuildCommands
  \/ Clone
  \/ SetRemoteUrl
  \/ ReadIndex
  \/ Regenerate
  \/ RewriteIndex
  \/ FirstLoop
  \/ SecondLoop
  \/ RevParse
  \/ NotifyEnter
  \/ Post
  \/ Sleep
  \/ Cleanup

Spec == Init /\ [][Next]_vars

\* ------------------------------------------- write_attachment on its own
\* names and data URLs write_attachment may be handed (lines 95-98)
AttachmentInputs ==
  [name : {"data.csv", "index.html", "logo.png", "LOGO.PNG", "book.xlsx", "README.md"},
   url : { <<DataHeader, <<>>>>,
           <<DataHeader, <<"Q", "Q", "=", "=">>>>,
           <<DataHeader, <<"Q", "f", "8", "=">>>>,
           <<DataHeader, <<"w", "6", "k", "=">>>>,
           <<DataHeader, <<"/", "w", "=", "=">>>>,
           <<DataHeader, <<"Q", "f", "9", "B">>>>,
           <<DataHeader, <<"w", "w", "=", "=">>>>,
           <<DataHeader, <<"Q", "c", "N", "B">>>>,
           <<DataHeader, <<"q", "Q", "=", "=">>>>,
           <<DataHeader, <<"Q", "Q", "=">>>>,
           <<DataHeader>> }]

\* a round-1 run at line 157, its workspace freshly made, one attachment to write
InitAttach ==
  /\ env = [MY_SECRET |-> "s3cret", GITHUB_USERNAME |-> "acct", GITHUB_TOKEN |-> "tok"]
  /\ firstLoopDepth \in {"try", "else"}
  /\ fs = [t \in TaskIds |-> EmptyDir]
  /\ responses = <<>>
  /\ threads = 0
  /\ directCalls = 1
  /\ pc = "attach"
  /\ \E attachment \in AttachmentInputs :
       task_data = [task |-> "a", round |-> 1, secret |-> "s3cret",
                    email |-> "u@example.org", nonce |-> "n-1", brief |-> "todo app",
                    evaluation_url |-> "https://eval.example/notify",
                    attachments |-> <<attachment>>]
  /\ commands = <<>>
  /\ idx = 1
  /\ calls = <<Call("generate", <<>>, TRUE)>>
  /\ html_code = <<"<html>v2</html>">>
  /\ old_code = <<>>
  /\ commit_sha = None
  /\ payload = NoPayload
  /\ attempt = 1
  /\ ntrace = <<>>
  /\ notified = "pending"
  /\ failedAt = "none"
  /\ escaped = FALSE
  /\ parked = NoRun

NextAttach == WriteAttachment

SpecAttach == InitAttach /\ [][NextAttach]_vars

\* ------------------------------------------------- one run of background_task
\* background_task has just been called (line 109) with some task, on a disk
\* where an earlier run for the task left nothing or left its files
InitRun ==
  /\ env \in [MY_SECRET : EnvSecrets, GITHUB_USERNAME : EnvAccounts, GITHUB_TOKEN : EnvTokens]
  /\ firstLoopDepth \in {"try", "else"}
  /\ fs \in {[t \in TaskIds |-> NoDir],
              [t \in TaskIds |-> WriteFile(EmptyDir, "LICENSE", license_text)]}
  /\ responses = <<>>
  /\ threads = 0
  /\ directCalls = 1
  /\ pc = "config"
  /\ task_data \in Tasks
  /\ commands = <<>>
  /\ idx = 1
  /\ calls = <<>>
  /\ html_code = <<>>
  /\ old_code = <<>>
  /\ commit_sha = None
  /\ payload = NoPayload
  /\ attempt = 1
  /\ ntrace = <<>>
  /\ notified = "pending"
  /\ failedAt = "none"
  /\ escaped = FALSE
  /\ parked = NoRun

\* the steps of the run: every statement of lines 110-241 with the calls it makes
NextRun ==
  \/ CheckConfig
  \/ CheckSecret
  \/ PrepareWorkspace
  \/ GenerateNew
  \/ WriteFiles
  \/ WriteAttachment
  \/ BuildCommands
  \/ Clone
  \/ SetRemoteUrl
  \/ ReadIndex
  \/ Regenerate
  \/ RewriteIndex
  \/ FirstLoop
  \/ SecondLoop
  \/ RevParse
  \/ NotifyEnter
  \/ Post
  \/ Sleep
  \/ Cleanup

\* the thread keeps running and every external call returns or fails, so a
\* step that can be taken is taken
SpecRun == InitRun /\ [][NextRun]_vars /\ WF_vars(NextRun)

\* ------------------------------------------------ two threads of background_task
\* the local state of the thread that is running
Registers ==
  [pc |-> pc, task_data |-> task_data, commands |-> commands, idx |-> idx,
   calls |-> calls, html_code |-> html_code, old_code |-> old_code,
   commit_sha |-> commit_sha, payload |-> payload, attempt |-> attempt,
   ntrace |-> ntrace, notified |-> notified, failedAt |-> failedAt,
   escaped |-> escaped]

\* the local state of a thread that line 270 has just started
Started(data) ==
  [NoRun EXCEPT !.pc = "config", !.task_data = data]

\* two task identifiers and the tasks the two threads are started with
ConcurrentIds == {"a", "b"}
TaskOf(id, round) ==
  [task |-> id, round |-> round, secret |-> "s3cret", email |-> "u@example.org",
   nonce |-> "n-1", brief |-> "todo app",
   evaluation_url |-> "https://eval.example/notify",
   attachments |-> IF round = 1
                   THEN <<[name |-> "data.csv", url |-> <<DataHeader, <<"Q", "f", "8", "=">>>>]>>
                   ELSE <<>>]

\* handle_request has answered two requests with different task identifiers
\* and started a thread for each (lines 269-271)
InitConc ==
  /\ env = [MY_SECRET |-> "s3cret", GITHUB_USERNAME |-> "acct", GITHUB_TOKEN |-> "tok"]
  /\ firstLoopDepth \in {"try", "else"}
  /\ fs = [t \in ConcurrentIds |-> NoDir]
  /\ \E round \in 1..2 :
       /\ responses =
            <<Response([kind |-> ObjectJson, data |-> TaskOf("a", 1)], 200, TRUE),
              Response([kind |-> ObjectJson, data |-> TaskOf("b", round)], 200, TRUE)>>
       /\ parked = Started(TaskOf("b", round))
  /\ threads = 2
  /\ directCalls = 0
  /\ pc = "config"
  /\ task_data = TaskOf("a", 1)
  /\ commands = <<>>
  /\ idx = 1
  /\ calls = <<>>
  /\ html_code = <<>>
  /\ old_code = <<>>
  /\ commit_sha = None
  /\ payload = NoPayload
  /\ attempt = 1
  /\ ntrace = <<>>
  /\ notified = "pending"
  /\ failedAt = "none"
  /\ escaped = FALSE

\* the scheduler lets the other thread run
Switch ==
  /\ parked.pc \notin {"idle", "done", "aborted", "rejected"}
  /\ parked' = Registers
  /\ pc' = parked.pc
  /\ task_data' = parked.task_data
  /\ commands' = parked.commands
  /\ idx' = parked.idx
  /\ calls' = parked.calls
  /\ html_code' = parked.html_code
  /\ old_code' = parked.old_code
  /\ commit_sha' = parked.commit_sha
  /\ payload' = parked.payload
  /\ attempt' = parked.attempt
  /\ ntrace' = parked.ntrace
  /\ notified' = parked.notified
  /\ failedAt' = parked.failedAt
  /\ escaped' = parked.escaped
  /\ UNCHANGED <<env, firstLoopDepth, fs, responses, threads, directCalls>>

NextConc ==
  \/ Switch
  \/ NextRun

SpecConc == InitConc /\ [][NextConc]_vars

\* the user-wide git configuration file the --global commands of lines 169-171 write
GlobalConfigCommands ==
  {"git config user.name", "git config user.email", "git config init.defaultBranch"}

\* commands that address the remote repository tds-proj-<task> (lines 162-167,
\* 177-182, 187, 208)
RemoteCommands == {"create-repo", "git push", "enable-pages", "gh repo clone"}

\* what a command of a run for the task acts on
Locations(cmd, task) ==
  IF cmd \in GlobalConfigCommands THEN {[kind |-> "git global config", key |-> "~"]}
  ELSE IF cmd = "generate" THEN {}
  ELSE IF cmd \in RemoteCommands
  THEN {[kind |-> "remote", key |-> task], [kind |-> "workspace", key |-> task]}
  ELSE {[kind |-> "workspace", key |-> task]}

\* what a thread has acted on so far: its workspace from line 123 on, and
\* whatever the commands it has invoked act on
Touched(thread) ==
  (IF thread.pc \in {"idle", "config", "secret", "workspace", "rejected"}
      \/ (thread.pc = "aborted" /\ thread.failedAt = "config")
   THEN {} ELSE {[kind |-> "workspace", key |-> thread.task_data.task]})
  \cup UNION {Locations(thread.calls[i].cmd, thread.task_data.task) :
                i \in 1..Len(thread.calls)}

\* ==================================================================== claims
Workspace == fs[task_data.task]
Mismatch(data) == data.secret # env.MY_SECRET
Posts == {i \in 1..Len(ntrace) : ntrace[i].ev = "post"}
Sleeps == {i \in 1..Len(ntrace) : ntrace[i].ev = "sleep"}
NotifierReturned == pc \in {"cleanup", "done"}
LastResponse == responses[Len(responses)]

\* C1: a task whose secret differs from the configured one causes no side
\* effect: while such a task is the run's task the filesystem does not change,
\* no external action is invoked and no notification attempt made; and a
\* request answered 403 changes neither the filesystem nor the run state and
\* starts no thread.
C1_NoSideEffectOnMismatch ==
  [][ /\ (pc' # "idle" /\ Mismatch(task_data'))
           => (fs' = fs /\ calls' = <<>> /\ ntrace' = <<>>)
      /\ (Len(responses') > Len(responses) /\ responses'[Len(responses')].status = 403)
           => UNCHANGED <<fs, threads, runVars>> ]_vars

\* a directly entered run with a wrong secret has returned, and the workspace an
\* earlier aborted run left behind is still there
C1_Witness ==
  /\ pc = "rejected" /\ Mismatch(task_data) /\ directCalls > 0
  /\ Workspace.exists /\ "index.html" \in DOMAIN Workspace.files

\* C2: every POST is answered 400 when it is not JSON, 403 when its secret
\* differs from the configured one and 200 otherwise; a run is started exactly
\* for the 200 responses, one per response.
C2_StatusContract ==
  /\ \A i \in 1..Len(responses) :
       LET r == responses[i]
       IN /\ r.status = (IF r.kind = NotJson THEN 400
                         ELSE IF r.secret # env.MY_SECRET THEN 403 ELSE 200)
          /\ r.started <=> (r.status = 200)
  /\ threads = Cardinality({i \in 1..Len(responses) : responses[i].status = 200})

\* C3: at most 4 attempts; nothing follows a 200 response and the call then
\* returns True; it returns False exactly when 4 attempts were made and none
\* was answered 200 (another status and a transport failure both count as failed).
C3_BoundedRetry ==
  /\ Cardinality(Posts) <= 4
  /\ \A i \in Posts : ntrace[i].status = "200" => i = Len(ntrace)
  /\ notified = "True" <=>
       (ntrace # <<>> /\ ntrace[Len(ntrace)].ev = "post" /\ ntrace[Len(ntrace)].status = "200")
  /\ notified = "False" =>
       (Cardinality(Posts) = 4 /\ \A i \in Posts : ntrace[i].status # "200")
  /\ (NotifierReturned /\ \A i \in Posts : ntrace[i].status # "200") => notified = "False"
  /\ NotifierReturned => notified # "pending"

\* four attempts failed, by status and by transport failure, and False was returned
C3_Witness ==
  /\ notified = "False"
  /\ \E i, j \in Posts : ntrace[i].status = "500" /\ ntrace[j].status = "RequestException"

\* C4: every delay follows a failed attempt and is followed by another attempt
\* (none after the final attempt, none after a success), and the delays taken
\* are a prefix of 1, 2, 4, 8.
C4_DelaysBetweenAttempts ==
  /\ \A i \in Sleeps :
       /\ i > 1 /\ ntrace[i - 1].ev = "post" /\ ntrace[i - 1].status # "200"
       /\ NotifierReturned => (i < Len(ntrace) /\ ntrace[i + 1].ev = "post")
  /\ \A i \in Sleeps :
       ntrace[i].delay = <<1, 2, 4, 8>>[Cardinality({j \in Sleeps : j <= i})]

\* C5: no body transmitted to the evaluator has an evaluation_url field, on
\* the first attempt or on a retry.
C5_NoUrlInBody ==
  /\ \A i \in Posts : "evaluation_url" \notin DOMAIN ntrace[i].body
  /\ pc \in {"post", "sleep"} => "evaluation_url" \notin DOMAIN payload

\* a retry has been transmitted
C5_Witness == Cardinality(Posts) >= 2 /\ "email" \in DOMAIN ntrace[2].body

\* C6: once the notification step is reached the run is never aborted,
\* whatever the attempts' outcomes, and when it ends it has completed and the
\* workspace directory is gone.
C6_NotificationNeverAborts ==
  ntrace # <<>> =>
    /\ pc # "aborted" /\ failedAt = "none"
    /\ Idle => (pc = "done" /\ ~Workspace.exists)

\* all four attempts failed and the run completed
C6_Witness ==
  /\ pc = "done" /\ notified = "False"
  /\ \A i \in Posts : ntrace[i].status = "500"

\* C7 as stated: the workspace is absent after a successful run and present
\* after a run aborted by a configuration, generation, attachment or publish failure.
C7_Original ==
  /\ pc = "done" => ~Workspace.exists
  /\ pc = "aborted" => Workspace.exists

\* C7 as amended: the workspace is absent after a successful run and present
\* after a run aborted by a generation, attachment or publish failure, that is
\* by any failure after the workspace was prepared.
C7_WorkspaceAtEnd ==
  /\ pc = "done" => ~Workspace.exists
  /\ (pc = "aborted" /\ failedAt # "config") =>
       (Workspace.exists /\ failedAt \in
          {"generate", "attachment", "clone", "seturl", "read", "git rev-parse"}
            \cup {commands[i] : i \in 1..Len(commands)})

\* a run aborted by a failed push, its workspace left behind
C7_Witness == pc = "aborted" /\ failedAt = "git push" /\ Workspace.exists

\* C8: no exception leaves background_task; every raised exception ends the
\* run in the except clause.
C8_ExceptionsContained ==
  /\ ~escaped
  /\ failedAt # "none" => pc = "aborted"
  /\ \A i \in 1..Len(calls) : ~calls[i].ok => (pc = "aborted" /\ failedAt # "none")

\* the commit read-back raised and was caught
C8_Witness == pc = "aborted" /\ failedAt = "git rev-parse" /\ ~escaped

\* C9: fail-fast.  A failed external action is the last action of its run and
\* is not repeated; a notification attempt is made only when every action
\* before it succeeded and every command of the list has run; an aborted run
\* does nothing more and the abort leaves the files written so far in place.
C9_FailFast ==
  /\ [](/\ \A i \in 1..Len(calls) : ~calls[i].ok => (i = Len(calls) /\ pc = "aborted")
        /\ pc = "aborted" => ntrace = <<>>
        /\ ntrace # <<>> =>
             /\ \A i \in 1..Len(calls) : calls[i].ok
             /\ \A k \in 1..Len(commands) :
                  \E i \in 1..Len(calls) : calls[i].cmd = commands[k])
  /\ [][ /\ (pc # "aborted" /\ pc' = "aborted") => fs' = fs
         /\ (pc = "aborted" /\ pc' = "aborted") => UNCHANGED <<fs, calls, ntrace>> ]_vars

\* a command of the second pass failed after the first pass went through
C9_Witness ==
  /\ pc = "aborted" /\ failedAt = "create-repo"
  /\ \E i \in 1..Len(calls) : calls[i].cmd = "enable-pages" /\ calls[i].ok

\* C10: in a round-1 run each publish action is invoked directly after the
\* success of the one before it in the order init, stage, commit, create
\* repository, attach remote, push, enable hosting, and a notification attempt
\* is made only after enable-hosting succeeded.
PublishOrder ==
  <<"git init", "git add", "git commit", "create-repo", "git remote add",
    "git push", "enable-pages">>

C10_PublishOrder ==
  task_data.round = 1 =>
    /\ \A k \in 2..Len(PublishOrder) : \A j \in 1..Len(calls) :
         calls[j].cmd = PublishOrder[k] =>
           (j > 1 /\ calls[j - 1].cmd = PublishOrder[k - 1] /\ calls[j - 1].ok)
    /\ ntrace # <<>> =>
         \E j \in 1..Len(calls) : calls[j].cmd = "enable-pages" /\ calls[j].ok

\* a round-1 run has notified the evaluator
C10_Witness ==
  /\ task_data.round = 1 /\ notified = "True" /\ pc = "done"
  /\ \E j \in 1..Len(calls) : calls[j].cmd = "git push"

\* positions of the calls of one action in the run's call log
CallsOf(cmd) == {i \in 1..Len(calls) : calls[i].cmd = cmd}
FixedFiles(files) == [n \in DOMAIN files \cap {"README.md", "LICENSE"} |-> files[n]]

\* C11: in a run with round >= 2 the first three external actions are, in
\* this order, the clone, the authenticated remote and the generator, the
\* generator being handed the text read from index.html; commit comes after
\* the generator and push directly after a successful commit; no repository
\* is created, no hosting enabled, and no step after the clone writes the
\* readme or the license file.
C11_UpdateOrder ==
  /\ [](task_data.round >= 2 =>
          /\ \A i \in CallsOf("gh repo clone") : i = 1
          /\ \A i \in CallsOf("git remote set-url") : i = 2 /\ calls[1].ok
          /\ \A i \in CallsOf("generate") :
               /\ i = 3 /\ calls[2].ok
               /\ calls[i].existing = old_code
               /\ pc = "rewrite" => old_code = Workspace.files["index.html"]
          /\ \A i \in CallsOf("git commit") : i > 3 /\ calls[3].ok
          /\ \A i \in CallsOf("git push") :
               calls[i - 1].cmd = "git commit" /\ calls[i - 1].ok
          /\ CallsOf("create-repo") = {} /\ CallsOf("enable-pages") = {}
          /\ calls # <<>> => "LICENSE" \notin DOMAIN Workspace.files)
  /\ [][(task_data.round >= 2 /\ pc \notin {"workspace", "clone", "cleanup"} /\ ~Idle)
          => FixedFiles(fs'[task_data.task].files) = FixedFiles(Workspace.files)]_vars

\* a round-2 run revised the cloned page and completed
C11_Witness ==
  /\ task_data.round = 2 /\ pc = "done"
  /\ \E i \in CallsOf("generate") : calls[i].existing = <<"<html>v1</html>">>
  /\ \E i \in CallsOf("git push") : calls[i].ok

\* C12: every command of the run's list is executed at most once in a run,
\* and exactly once in a run that completed.
C12_CommandsOnce ==
  \A k \in 1..Len(commands) :
    /\ Cardinality(CallsOf(commands[k])) <= 1
    /\ pc = "done" => Cardinality(CallsOf(commands[k])) = 1

\* the round-1 file-writing phase is over and no version-control command has run
AfterWriting == task_data.round = 1 /\ pc \in {"loop1", "loop2"} /\ Len(calls) = 1
ProjectFiles == {"index.html", "README.md", "LICENSE"}
AttachmentNames == {task_data.attachments[i].name : i \in 1..Len(task_data.attachments)}
DistinctNames ==
  /\ AttachmentNames \cap ProjectFiles = {}
  /\ Cardinality(AttachmentNames) = Len(task_data.attachments)

C14_Payload ==
  \A i \in Posts :
    LET body == ntrace[i].body
        commits == {j \in CallsOf("git commit") : calls[j].ok}
    IN /\ \A j \in Posts : ntrace[j].body = body
       /\ DOMAIN body =
            {"email", "task", "round", "nonce", "repo_url", "commit_sha", "pages_url"}
       /\ body["email"] = <<task_data.email>>
       /\ body["task"] = <<task_data.task>>
       /\ body["round"] = <<task_data.round>>
       /\ body["nonce"] = <<task_data.nonce>>
       /\ env.GITHUB_USERNAME \notin {None, ""}
       /\ body["repo_url"] =
            <<"https://github.com/", env.GITHUB_USERNAME, "/tds-proj-", task_data.task>>
       /\ body["pages_url"] =
            <<"https://", env.GITHUB_USERNAME, ".github.io/tds-proj-", task_data.task, "/">>
       /\ commits # {}
       /\ body["commit_sha"] =
            <<IF Cardinality(commits) = 1 THEN "commit-1" ELSE "commit-2">>
       /\ \E r \in CallsOf("git rev-parse") : calls[r].ok /\ \A j \in commits : j < r

\* the payload went out twice in a run that committed twice
C14_Witness ==
  /\ Cardinality(Posts) >= 2
  /\ ntrace[1].body["commit_sha"] = <<"commit-2">>

\* C15: a model response that is empty after the fence markers and the
\* surrounding whitespace are stripped aborts the run at generation: a
\* generation that returned has returned non-empty content, so no empty
\* index.html is written, committed or pushed, in round 1 or later rounds.
C15_EmptyResponseAborts ==
  /\ (\E i \in CallsOf("generate") : calls[i].ok) => html_code # <<>>
  /\ (~Idle /\ pc \in {"loop1", "loop2", "revparse", "notify", "post", "sleep"}
        /\ "index.html" \in DOMAIN Workspace.files /\ task_data.attachments = <<>>)
       => Workspace.files["index.html"] # <<>>

\* C16: in any sequence of runs for one task identifier, aborted runs that
\* left their workspace behind included, the workspace is an empty directory
\* when the run starts writing or cloning, and afterwards holds only files
\* this run wrote or cloned, never a file of an earlier run.
InWorkspacePhase ==
  ~Idle /\ pc \notin {"config", "secret", "workspace"}
C16_CleanSlate ==
  /\ (~Idle /\ pc \in {"generate", "write", "clone"}) => Workspace = EmptyDir
  /\ (InWorkspacePhase /\ task_data.round = 1)
       => DOMAIN Workspace.files \subseteq ProjectFiles \cup AttachmentNames
  /\ (InWorkspacePhase /\ task_data.round >= 2)
       => DOMAIN Workspace.files \subseteq {"README.md", "index.html"}

\* a second run is about to prepare the workspace an aborted round-1 run left
C16_Witness ==
  /\ Invocations = 2
  /\ pc = "workspace"
  /\ task_data.round >= 2
  /\ "LICENSE" \in DOMAIN Workspace.files

\* C17: when MY_SECRET, GITHUB_USERNAME or GITHUB_TOKEN is missing or empty,
\* a run aborts at the configuration check before any side effect: no
\* workspace is created or purged, no generator or publish action is invoked,
\* no notification is sent, and the failure stays inside the run.
ConfigMissing == \E v \in EnvVars : EnvMissing(v)
C17_MissingConfigAborts ==
  ConfigMissing =>
    /\ fs = [t \in TaskIds |-> NoDir]
    /\ ~Idle => (pc = "config" /\ calls = <<>> /\ ntrace = <<>>)
    /\ pc \in {"idle", "rejected", "config", "aborted"}
    /\ pc = "aborted" => (failedAt = "config" /\ calls = <<>> /\ ntrace = <<>>)
    /\ ~escaped

\* a run started by a request has aborted at the configuration check with only
\* the token missing, after the service had already served an earlier request
C17_Witness ==
  /\ ~EnvMissing("MY_SECRET") /\ ~EnvMissing("GITHUB_USERNAME")
  /\ EnvMissing("GITHUB_TOKEN")
  /\ pc = "aborted"
  /\ failedAt = "config"
  /\ task_data.secret = env.MY_SECRET
  /\ threads = 2

\* the attachment write_attachment was handed, its decoded bytes, and the file
AttachmentWritten == ~Idle /\ pc = "attach" /\ idx = 2 /\ Len(task_data.attachments) = 1
TheAttachment == task_data.attachments[1]
DecodedBytes == B64Decode(TheAttachment.url[2])
TheFile == Workspace.files[TheAttachment.name]
InvalidBytes == Utf8Decode(DecodedBytes, "ignore") # Utf8Decode(DecodedBytes, "replace")

\* C19 as stated: a binary name gets the decoded bytes unchanged; any other
\* name gets the UTF-8 text with a replacement marker (U+FFFD) for every
\* invalid sequence, nothing dropped; invalid bytes never make the write fail.
C19_Original ==
  /\ AttachmentWritten =>
       TheFile = IF Suffix(TheAttachment.name) \in BinaryExtensions
                 THEN Bytes(DecodedBytes)
                 ELSE Chars(Utf8Decode(DecodedBytes, "replace"))
  /\ (pc = "aborted" /\ failedAt = "attachment") => Undecodable(TheAttachment)

\* C19: a binary name gets the decoded bytes unchanged; any other name gets
\* the UTF-8 text with every invalid sequence dropped, so the text holds no
\* replacement marker and is the decoded bytes when they are all ASCII; the
\* write fails only when the data URL itself does not decode.
C19_AttachmentContent ==
  /\ AttachmentWritten =>
       IF Suffix(TheAttachment.name) \in BinaryExtensions
       THEN TheFile = Bytes(DecodedBytes)
       ELSE /\ TheFile = Chars(Utf8Decode(DecodedBytes, "ignore"))
            /\ \A i \in 1..Len(TheFile) : TheFile[i] # "U+FFFD"
            /\ Len(TheFile) <= Len(DecodedBytes)
            /\ (\A i \in 1..Len(DecodedBytes) : DecodedBytes[i] < 128)
                 => TheFile = Chars(DecodedBytes)
  /\ (pc = "aborted" /\ failedAt = "attachment") => Undecodable(TheAttachment)
  /\ (pc = "attach" /\ idx = 1 /\ ~Undecodable(TheAttachment)) => ENABLED WriteAttachment

\* a text attachment whose bytes hold an invalid sequence has been written
C19_Witness ==
  /\ AttachmentWritten
  /\ Suffix(TheAttachment.name) \notin BinaryExtensions
  /\ InvalidBytes
  /\ TheFile # <<>>

\* a binary attachment whose bytes are not valid UTF-8 has been written as is
C19_WitnessBinary ==
  /\ AttachmentWritten
  /\ Suffix(TheAttachment.name) \in BinaryExtensions
  /\ InvalidBytes
  /\ TheFile = Bytes(DecodedBytes)

\* C20: every run of background_task ends: it reaches the completed state or
\* an aborted state (an exception caught, or the return on a secret
\* mismatch) and takes no step from there, every step before that moves the
\* run on, and the notifier makes at most four attempts on the way.
RunEnded == pc \in {"done", "aborted", "rejected"}
\* where the run is: the statement it is at and its loop index
position == <<pc, idx>>
C20_Terminates ==
  /\ <>[]RunEnded
  /\ [](Cardinality(Posts) <= 4)
  /\ [](RunEnded => ~ENABLED NextRun)
  /\ [][position' # position]_vars

\* a run completed after the notifier used up all four attempts
C20_Witness ==
  /\ pc = "done"
  /\ Cardinality(Posts) = 4
  /\ notified = "False"

\* C18: two concurrent runs with different task identifiers do not conflict:
\* while both run, no place (workspace directory, remote repository,
\* configuration file) has been acted on by both threads, and neither
\* workspace exists while its own run has not reached it.
C18_NoConflict ==
  /\ task_data.task # parked.task_data.task
  /\ (~Idle /\ parked.pc \notin {"idle", "done", "aborted", "rejected"})
       => Touched(Registers) \cap Touched(parked) = {}
  /\ \A thread \in {Registers, parked} :
       thread.pc \in {"config", "secret", "workspace"}
         => fs[thread.task_data.task] = NoDir

====
